---- MODULE Spec2Model ----
(***************************************************************************)
(* A model of the text-utility pipeline: src/src/run_query.py              *)
(* (TextUtility), src/src/safety.py (SafetyChecker) and the per-request    *)
(* construction done by src/src/api.py.                                    *)
(*                                                                         *)
(* Text is a sequence of one-character strings, so that len, strip, lower, *)
(* substring tests and the regular expressions of safety.py are computed   *)
(* as the code computes them.  The alphabet is ASCII.                      *)
(***************************************************************************)
EXTENDS Integers, Sequences, FiniteSets, TLC

\* ------------------------------------------------------------------ text

Digits == {"0","1","2","3","4","5","6","7","8","9"}
LowerSeq == <<"a","b","c","d","e","f","g","h","i","j","k","l","m",
              "n","o","p","q","r","s","t","u","v","w","x","y","z">>
UpperSeq == <<"A","B","C","D","E","F","G","H","I","J","K","L","M",
              "N","O","P","Q","R","S","T","U","V","W","X","Y","Z">>
LowerLetters == {LowerSeq[i] : i \in 1..26}
UpperLetters == {UpperSeq[i] : i \in 1..26}
\* \w, \d and \s of Python's re on ASCII text
WordChars == Digits \cup LowerLetters \cup UpperLetters \cup {"_"}
SpaceChars == {" ", "\t", "\n", "\r"}
\* the character U+0060, which a TLA+ string cannot hold
Backtick == "BACKTICK"
IsWord(c) == c \in WordChars
IsSpace(c) == c \in SpaceChars

SetMin(S) == CHOOSE x \in S : \A y \in S : x <= y
SetMax(S) == CHOOSE x \in S : \A y \in S : x >= y
MaxOf(a, b) == IF a >= b THEN a ELSE b
MinOf(a, b) == IF a <= b THEN a ELSE b

\* str.lower()
ToLower(c) ==
  IF c \in UpperLetters THEN LowerSeq[CHOOSE i \in 1..26 : UpperSeq[i] = c] ELSE c
Lower(t) == [i \in 1..Len(t) |-> ToLower(t[i])]

\* str.strip()
Between(t, keep) == IF keep = {} THEN <<>> ELSE SubSeq(t, SetMin(keep), SetMax(keep))
Strip(t) == Between(t, {i \in 1..Len(t) : ~IsSpace(t[i])})

\* str.startswith / str.endswith / the `in` operator on str
StartsWith(t, p) == Len(p) <= Len(t) /\ SubSeq(t, 1, Len(p)) = p
EndsWith(t, p) == Len(p) <= Len(t) /\ SubSeq(t, Len(t) - Len(p) + 1, Len(t)) = p
Contains(t, p) ==
  \E i \in 1..(Len(t) - Len(p) + 1) : SubSeq(t, i, i + Len(p) - 1) = p

\* t[:n]
Prefix(t, n) == SubSeq(t, 1, MinOf(n, Len(t)))

\* sum(1 for p in phrases if p in t)
CountIn(phrases, t) == Cardinality({k \in 1..Len(phrases) : Contains(t, phrases[k])})

\* ------------------------------------------- regular expressions (re)
\* A pattern is a tagged tuple.  Ends(r, t, p, ic) is the sequence of
\* positions at which a match of r that starts at position p of t can end,
\* in the order in which the backtracking matcher of re tries them: its
\* head is the match re.search, re.match and re.sub take.  ic is
\* re.IGNORECASE.  A repetition's upper limit -1 means no limit.

Lit(c) == <<"lit", c>>
Set(S) == <<"set", S>>
NotSet(S) == <<"nset", S>>
AnyChar == <<"any">>
Str(s) == <<"str", s>>
WB == <<"wb">>
Bol == <<"bol">>
Eol == <<"eol">>
Cat(rs) == <<"cat", rs>>
Alt(rs) == <<"alt", rs>>
Rep(r, lo, hi) == <<"rep", r, lo, hi, TRUE>>
Lazy(r, lo, hi) == <<"rep", r, lo, hi, FALSE>>
Plus(r) == Rep(r, 1, -1)
Star(r) == Rep(r, 0, -1)
Opt(r) == Rep(r, 0, 1)

IsWordAt(t, i) == i >= 1 /\ i <= Len(t) /\ IsWord(t[i])
AtWordBoundary(t, p) == IsWordAt(t, p - 1) # IsWordAt(t, p)

\* one character against a one-character pattern
IsSingle(r) == r[1] \in {"lit", "set", "nset", "any"}
MatchesChar(r, c, ic) ==
  CASE r[1] = "lit" -> IF ic THEN ToLower(c) = ToLower(r[2]) ELSE c = r[2]
    [] r[1] = "set" -> c \in r[2]
    [] r[1] = "nset" -> c \notin r[2]
    [] r[1] = "any" -> TRUE
\* the number of consecutive characters from position p that match r
MinOr(S, d) == IF S = {} THEN d ELSE SetMin(S)
RunLen(r, t, p, ic) ==
  MinOr({i \in p..Len(t) : ~MatchesChar(r, t[i], ic)}, Len(t) + 1) - p
\* a repetition of a one-character pattern: every count from lo up to the run
\* (and hi), the longest first when greedy, the shortest first when lazy
CountedEnds(lo, top, greedy, p) ==
  [i \in 1..(IF top >= lo THEN top - lo + 1 ELSE 0) |->
     IF greedy THEN p + top - (i - 1) ELSE p + lo + (i - 1)]
SingleRepEnds(r, lo, hi, greedy, t, p, ic) ==
  CountedEnds(lo, IF hi = -1 THEN RunLen(r, t, p, ic) ELSE MinOf(RunLen(r, t, p, ic), hi),
              greedy, p)

RECURSIVE Ends(_, _, _, _)
RECURSIVE CatEnds(_, _, _, _, _)
RECURSIVE CatEach(_, _, _, _, _)
RECURSIVE AltEnds(_, _, _, _, _)
RECURSIVE RepEnds(_, _, _, _, _, _, _)
RECURSIVE RepEach(_, _, _, _, _, _, _, _)

Ends(r, t, p, ic) ==
  CASE IsSingle(r) ->
         IF p <= Len(t) /\ MatchesChar(r, t[p], ic) THEN <<p + 1>> ELSE <<>>
    [] r[1] = "str" ->
         IF p + Len(r[2]) - 1 <= Len(t)
            /\ (IF ic THEN Lower(SubSeq(t, p, p + Len(r[2]) - 1)) = Lower(r[2])
                      ELSE SubSeq(t, p, p + Len(r[2]) - 1) = r[2])
         THEN <<p + Len(r[2])>> ELSE <<>>
    [] r[1] = "wb" -> IF AtWordBoundary(t, p) THEN <<p>> ELSE <<>>
    [] r[1] = "bol" -> IF p = 1 THEN <<p>> ELSE <<>>
    [] r[1] = "eol" ->
         IF p = Len(t) + 1 \/ (p = Len(t) /\ t[p] = "\n") THEN <<p>> ELSE <<>>
    [] r[1] = "cat" -> CatEnds(r[2], 1, t, p, ic)
    [] r[1] = "alt" -> AltEnds(r[2], 1, t, p, ic)
    [] r[1] = "rep" ->
         IF IsSingle(r[2]) THEN SingleRepEnds(r[2], r[3], r[4], r[5], t, p, ic)
         ELSE RepEnds(r[2], r[3], r[4], r[5], t, p, ic)

CatEnds(rs, k, t, p, ic) ==
  IF k > Len(rs) THEN <<p>>
  ELSE CatEach(rs, k, t, Ends(rs[k], t, p, ic), ic)

CatEach(rs, k, t, es, ic) ==
  IF es = <<>> THEN <<>>
  ELSE CatEnds(rs, k + 1, t, Head(es), ic) \o CatEach(rs, k, t, Tail(es), ic)

AltEnds(rs, k, t, p, ic) ==
  IF k > Len(rs) THEN <<>>
  ELSE Ends(rs[k], t, p, ic) \o AltEnds(rs, k + 1, t, p, ic)

RepEnds(r, lo, hi, greedy, t, p, ic) ==
  LET more == IF hi = 0 THEN <<>>
              ELSE RepEach(r, lo, hi, greedy, t, p, Ends(r, t, p, ic), ic)
      stop == IF lo <= 0 THEN <<p>> ELSE <<>>
  IN  IF greedy THEN more \o stop ELSE stop \o more

RepEach(r, lo, hi, greedy, t, p, es, ic) ==
  IF es = <<>> THEN <<>>
  ELSE (IF Head(es) > p
        THEN RepEnds(r, lo - 1, IF hi = -1 THEN -1 ELSE hi - 1, greedy, t, Head(es), ic)
        ELSE <<>>)
       \o RepEach(r, lo, hi, greedy, t, p, Tail(es), ic)

\* re.match: a match at the start of the text
ReMatch(r, t, ic) == Ends(r, t, 1, ic) # <<>>
\* re.search: a match anywhere
ReSearch(r, t, ic) == \E p \in 1..(Len(t) + 1) : Ends(r, t, p, ic) # <<>>
\* the first position from p on at which r matches a non-empty text, or 0
EndsBeyond(es, q) == es # <<>> /\ Head(es) > q
NextMatch(r, t, p, ic) ==
  MinOr({q \in p..Len(t) : EndsBeyond(Ends(r, t, q, ic), q)}, 0)

\* re.sub with a constant replacement: leftmost, non-overlapping matches
RECURSIVE SubFrom(_, _, _, _, _)
RECURSIVE SubAt(_, _, _, _, _, _)
SubFrom(r, repl, t, p, ic) == SubAt(r, repl, t, p, NextMatch(r, t, p, ic), ic)
\* q is the start of the next match, or 0
SubAt(r, repl, t, p, q, ic) ==
  IF q = 0 THEN SubSeq(t, p, Len(t))
  ELSE SubSeq(t, p, q - 1) \o repl \o SubFrom(r, repl, t, Head(Ends(r, t, q, ic)), ic)
ReSub(r, repl, t, ic) == SubFrom(r, repl, t, 1, ic)

\* ---------------------------------------------- safety.py: SafetyChecker

\* self.harmful_patterns: each entry is \b(w1|w2|...)\b, re.IGNORECASE
harmful_patterns ==
  << << <<"j","a","i","l","b","r","e","a","k">>,
        <<"p","r","o","m","p","t"," ","i","n","j","e","c","t","i","o","n">>,
        <<"i","g","n","o","r","e"," ","i","n","s","t","r","u","c","t","i","o","n","s">> >>,
     << <<"i","g","n","o","r","e"," ","p","r","e","v","i","o","u","s">>,
        <<"f","o","r","g","e","t"," ","e","v","e","r","y","t","h","i","n","g">>,
        <<"s","y","s","t","e","m"," ","p","r","o","m","p","t">> >>,
     << <<"a","c","t"," ","a","s">>,
        <<"p","r","e","t","e","n","d"," ","t","o"," ","b","e">>,
        <<"r","o","l","e","p","l","a","y"," ","a","s">> >>,
     << <<"h","a","c","k">>,
        <<"c","r","a","c","k">>,
        <<"e","x","p","l","o","i","t">>,
        <<"b","y","p","a","s","s">> >>,
     << <<"i","l","l","e","g","a","l">>,
        <<"u","n","l","a","w","f","u","l">>,
        <<"h","a","r","m","f","u","l">>,
        <<"d","a","n","g","e","r","o","u","s">> >>,
     << <<"s","u","i","c","i","d","e">>,
        <<"s","e","l","f","-","h","a","r","m">>,
        <<"v","i","o","l","e","n","c","e">>,
        <<"t","h","r","e","a","t">> >>,
     << <<"p","e","r","s","o","n","a","l"," ","i","n","f","o","r","m","a","t","i","o","n">>,
        <<"p","r","i","v","a","t","e"," ","d","a","t","a">>,
        <<"c","o","n","f","i","d","e","n","t","i","a","l">> >>,
     << <<"p","h","i","s","h","i","n","g">>,
        <<"s","c","a","m">>,
        <<"f","r","a","u","d">>,
        <<"m","a","l","w","a","r","e">> >> >>
compiled_patterns ==
  [k \in 1..Len(harmful_patterns) |->
     Cat(<<WB,
           Alt([j \in 1..Len(harmful_patterns[k]) |-> Str(harmful_patterns[k][j])]),
           WB>>)]

injection_keywords ==
  << <<"i","g","n","o","r","e">>,
     <<"f","o","r","g","e","t">>,
     <<"o","v","e","r","r","i","d","e">>,
     <<"b","y","p","a","s","s">>,
     <<"j","a","i","l","b","r","e","a","k">>,
     <<"s","y","s","t","e","m">>,
     <<"a","d","m","i","n">>,
     <<"r","o","o","t">>,
     <<"p","r","i","v","i","l","e","g","e">>,
     <<"e","l","e","v","a","t","e">>,
     <<"i","n","j","e","c","t","i","o","n">>,
     <<"p","a","y","l","o","a","d">>,
     <<"e","x","p","l","o","i","t">>,
     <<"v","u","l","n","e","r","a","b","i","l","i","t","y">> >>
instruction_phrases ==
  << <<"y","o","u"," ","m","u","s","t">>,
     <<"y","o","u"," ","s","h","o","u","l","d">>,
     <<"y","o","u"," ","w","i","l","l">>,
     <<"a","c","t"," ","a","s">>,
     <<"p","r","e","t","e","n","d"," ","t","o">>,
     <<"r","o","l","e","p","l","a","y"," ","a","s">>,
     <<"d","e","v","e","l","o","p","e","r"," ","m","o","d","e">>,
     <<"a","d","m","i","n"," ","a","c","c","e","s","s">>,
     <<"s","y","s","t","e","m"," ","p","r","o","m","p","t">> >>
adversarial_patterns ==
  << <<"i","g","n","o","r","e"," ","p","r","e","v","i","o","u","s">>,
     <<"f","o","r","g","e","t"," ","e","v","e","r","y","t","h","i","n","g">>,
     <<"o","v","e","r","r","i","d","e">>,
     <<"b","y","p","a","s","s">>,
     <<"j","a","i","l","b","r","e","a","k">>,
     <<"u","n","r","e","s","t","r","i","c","t","e","d">>,
     <<"d","e","v","e","l","o","p","e","r"," ","m","o","d","e">> >>
harmful_keywords ==
  << <<"j","a","i","l","b","r","e","a","k">>,
     <<"s","y","s","t","e","m"," ","p","r","o","m","p","t">>,
     <<"i","g","n","o","r","e"," ","i","n","s","t","r","u","c","t","i","o","n","s">>,
     <<"b","y","p","a","s","s"," ","s","e","c","u","r","i","t","y">>,
     <<"e","x","p","l","o","i","t">>,
     <<"h","a","c","k">>,
     <<"c","r","a","c","k">> >>
max_question_length == 2000
min_question_length == 3

\* \b[\w\.-]+@[\w\.-]+\.\w{2,}\b
email_pattern ==
  Cat(<<WB, Plus(Set(WordChars \cup {".", "-"})), Lit("@"),
        Plus(Set(WordChars \cup {".", "-"})), Lit("."), Rep(Set(WordChars), 2, -1), WB>>)
\* \b\+?\d[\d\-\s]{7,}\d\b
phone_pattern ==
  Cat(<<WB, Opt(Lit("+")), Set(Digits), Rep(Set(Digits \cup {"-"} \cup SpaceChars), 7, -1),
        Set(Digits), WB>>)
\* \b\d{2,4}[-\s]?\d{3,}[-\s]?\d{2,}\b
account_pattern ==
  Cat(<<WB, Rep(Set(Digits), 2, 4), Opt(Set({"-"} \cup SpaceChars)),
        Rep(Set(Digits), 3, -1), Opt(Set({"-"} \cup SpaceChars)),
        Rep(Set(Digits), 2, -1), WB>>)
\* (api[_-]?key|secret|token|password|ssn)\s*[:=]\s*\S+, re.IGNORECASE
secrets_pattern ==
  Cat(<<Alt(<<Cat(<<Str(<<"a","p","i">>), Opt(Set({"_", "-"})), Str(<<"k","e","y">>)>>),
              Str(<<"s","e","c","r","e","t">>),
              Str(<<"t","o","k","e","n">>),
              Str(<<"p","a","s","s","w","o","r","d">>),
              Str(<<"s","s","n">>)>>),
        Star(Set(SpaceChars)), Set({":", "="}), Star(Set(SpaceChars)),
        Plus(NotSet(SpaceChars))>>)
\* three backticks, (.*?) lazily, three backticks; re.DOTALL
code_fence_pattern ==
  Cat(<<Str(<<Backtick,Backtick,Backtick>>), Lazy(AnyChar, 0, -1), Str(<<Backtick,Backtick,Backtick>>)>>)

RedactedEmail == <<"[","r","e","d","a","c","t","e","d","-","e","m","a","i","l","]">>
RedactedPhone == <<"[","r","e","d","a","c","t","e","d","-","p","h","o","n","e","]">>
RedactedAccount == <<"[","r","e","d","a","c","t","e","d","-","a","c","c","o","u","n","t","]">>
RedactedSecret == <<"[","r","e","d","a","c","t","e","d","-","s","e","c","r","e","t","]">>
BlockedControl == <<"[","b","l","o","c","k","e","d","-","c","o","n","t","r","o","l","]">>
UserCodeOpen == <<"<","U","S","E","R","_","C","O","D","E",">","\n">>
UserCodeClose == <<"\n","<","/","U","S","E","R","_","C","O","D","E",">">>
FenceJson == <<Backtick,Backtick,Backtick,"j","s","o","n">>
Fence == <<Backtick,Backtick,Backtick>>
\* the reason texts of safety.py
MsgEmptyOrInvalid == <<"E","m","p","t","y"," ","o","r"," ","i","n","v","a","l","i","d"," ","i","n","p","u","t">>
MsgTooShort == <<"Q","u","e","s","t","i","o","n"," ","t","o","o"," ","s","h","o","r","t">>
MsgTooLong == <<"Q","u","e","s","t","i","o","n"," ","t","o","o"," ","l","o","n","g">>
MsgEmptyQuestion == <<"E","m","p","t","y"," ","q","u","e","s","t","i","o","n">>
MsgOnlyNumbers == <<"Q","u","e","s","t","i","o","n"," ","c","o","n","t","a","i","n","s"," ","o","n","l","y"," ","n","u","m","b","e","r","s"," ","o","r"," ","n","u","m","e","r","i","c"," ","c","h","a","r","a","c","t","e","r","s">>
MsgOnlyAsterisks == <<"Q","u","e","s","t","i","o","n"," ","c","o","n","t","a","i","n","s"," ","o","n","l","y"," ","a","s","t","e","r","i","s","k","s"," ","o","r"," ","s","p","e","c","i","a","l"," ","c","h","a","r","a","c","t","e","r","s">>
MsgOnlySpecial == <<"Q","u","e","s","t","i","o","n"," ","c","o","n","t","a","i","n","s"," ","o","n","l","y"," ","s","p","e","c","i","a","l"," ","c","h","a","r","a","c","t","e","r","s">>
MsgRepetitive == <<"Q","u","e","s","t","i","o","n"," ","c","o","n","t","a","i","n","s"," ","r","e","p","e","t","i","t","i","v","e"," ","o","r"," ","m","e","a","n","i","n","g","l","e","s","s"," ","c","h","a","r","a","c","t","e","r","s">>
MsgLacksContent == <<"Q","u","e","s","t","i","o","n"," ","l","a","c","k","s"," ","m","e","a","n","i","n","g","f","u","l"," ","c","o","n","t","e","n","t">>
MsgValidQuestion == <<"V","a","l","i","d"," ","q","u","e","s","t","i","o","n"," ","f","o","r","m","a","t">>
MsgHarmful == <<"D","e","t","e","c","t","e","d"," ","p","o","t","e","n","t","i","a","l","l","y"," ","h","a","r","m","f","u","l"," ","c","o","n","t","e","n","t">>
MsgInjectionPrefix == <<"H","i","g","h"," ","p","r","o","b","a","b","i","l","i","t","y"," ","o","f"," ","p","r","o","m","p","t"," ","i","n","j","e","c","t","i","o","n"," ","(","s","c","o","r","e",":"," ">>
MsgInputSafe == <<"I","n","p","u","t"," ","a","p","p","e","a","r","s"," ","s","a","f","e">>
MsgRespTooShort == <<"R","e","s","p","o","n","s","e"," ","t","o","o"," ","s","h","o","r","t"," ","o","r"," ","e","m","p","t","y">>
MsgRespOnlyNumbers == <<"R","e","s","p","o","n","s","e"," ","c","o","n","t","a","i","n","s"," ","o","n","l","y"," ","n","u","m","b","e","r","s">>
MsgRespOnlySpecial == <<"R","e","s","p","o","n","s","e"," ","c","o","n","t","a","i","n","s"," ","o","n","l","y"," ","s","p","e","c","i","a","l"," ","c","h","a","r","a","c","t","e","r","s">>
MsgRespHarmful == <<"R","e","s","p","o","n","s","e"," ","c","o","n","t","a","i","n","s"," ","p","o","t","e","n","t","i","a","l","l","y"," ","h","a","r","m","f","u","l"," ","c","o","n","t","e","n","t">>
MsgRespProhibitedPrefix == <<"R","e","s","p","o","n","s","e"," ","c","o","n","t","a","i","n","s"," ","p","r","o","h","i","b","i","t","e","d"," ","c","o","n","t","e","n","t",":"," ">>
MsgRespSafe == <<"R","e","s","p","o","n","s","e"," ","a","p","p","e","a","r","s"," ","s","a","f","e">>
MsgRespValid == <<"V","a","l","i","d"," ","r","e","s","p","o","n","s","e"," ","f","o","r","m","a","t">>

DigitSeq == <<"0","1","2","3","4","5","6","7","8","9">>
\* f"{score:.2f}" for a score held in hundredths
FormatScore(s) ==
  <<DigitSeq[(s \div 100) + 1], ".", DigitSeq[((s \div 10) % 10) + 1], DigitSeq[(s % 10) + 1]>>

\* _check_invalid_patterns: ^[\d\s\-\.]+$ , ^[*]+$ , ^[^a-zA-Z0-9\s]+$
OnlyNumeric == Cat(<<Bol, Plus(Set(Digits \cup SpaceChars \cup {"-", "."})), Eol>>)
OnlyAsterisks == Cat(<<Bol, Plus(Set({"*"})), Eol>>)
OnlySpecial ==
  Cat(<<Bol, Plus(NotSet(LowerLetters \cup UpperLetters \cup Digits \cup SpaceChars)), Eol>>)

check_invalid_patterns(question) ==
  IF question = <<>> THEN [valid |-> FALSE, reason |-> MsgEmptyQuestion]
  ELSE
  LET stripped == Strip(question)
      distinct == {stripped[i] : i \in {j \in 1..Len(stripped) : stripped[j] # " "}}
      nonspace == Cardinality({i \in 1..Len(stripped) : ~IsSpace(stripped[i])})
      alnum == Cardinality({i \in 1..Len(stripped) :
                              stripped[i] \in LowerLetters \cup UpperLetters \cup Digits})
  IN  IF ReMatch(OnlyNumeric, stripped, FALSE)
        THEN [valid |-> FALSE, reason |-> MsgOnlyNumbers]
      ELSE IF ReMatch(OnlyAsterisks, stripped, FALSE)
        THEN [valid |-> FALSE, reason |-> MsgOnlyAsterisks]
      ELSE IF ReMatch(OnlySpecial, stripped, FALSE)
        THEN [valid |-> FALSE, reason |-> MsgOnlySpecial]
      ELSE IF Cardinality(distinct) <= 2 /\ Len(stripped) >= 5
        THEN [valid |-> FALSE, reason |-> MsgRepetitive]
      ELSE IF nonspace < 3 /\ alnum < 3
        THEN [valid |-> FALSE, reason |-> MsgLacksContent]
      ELSE [valid |-> TRUE, reason |-> MsgValidQuestion]

\* _calculate_injection_score, in hundredths: the score of the three hit counts
score_of_counts_uncapped(keyword_count, instruction_count, adversarial_count) ==
  MinOf(keyword_count * 20, 60) + MinOf(instruction_count * 25, 40)
    + MinOf(adversarial_count * 40, 50)
score_of_counts(keyword_count, instruction_count, adversarial_count) ==
  MinOf(MinOf(keyword_count * 20, 60) + MinOf(instruction_count * 25, 40)
          + MinOf(adversarial_count * 40, 50),
        100)
\* _calculate_injection_score of a question
calculate_injection_score(question) ==
  score_of_counts(CountIn(injection_keywords, Lower(question)),
                  CountIn(instruction_phrases, Lower(question)),
                  CountIn(adversarial_patterns, Lower(question)))

MatchesHarmful(t) ==
  \E k \in 1..Len(compiled_patterns) : ReSearch(compiled_patterns[k], t, TRUE)

check_safety_score_first(question) ==
  IF question = <<>>
    THEN [safe |-> FALSE, reason |-> MsgEmptyOrInvalid, confidence |-> 100]
  ELSE
  LET question_stripped == Strip(question)
      invalid_pattern_result == check_invalid_patterns(question_stripped)
      injection_score == calculate_injection_score(question_stripped)
  IN  IF Len(question_stripped) < min_question_length
        THEN [safe |-> FALSE, reason |-> MsgTooShort, confidence |-> 100]
      ELSE IF Len(question_stripped) > max_question_length
        THEN [safe |-> FALSE, reason |-> MsgTooLong, confidence |-> 100]
      ELSE IF ~invalid_pattern_result.valid
        THEN [safe |-> FALSE, reason |-> invalid_pattern_result.reason, confidence |-> 100]
      ELSE IF injection_score > 50
        THEN [safe |-> FALSE,
              reason |-> MsgInjectionPrefix \o FormatScore(injection_score) \o <<")">>,
              confidence |-> injection_score]
      ELSE IF MatchesHarmful(question_stripped)
        THEN [safe |-> FALSE, reason |-> MsgHarmful, confidence |-> 80]
      ELSE [safe |-> TRUE, reason |-> MsgInputSafe, confidence |-> 90]
\* check_safety; confidence in hundredths
check_safety(question) ==
  IF question = <<>>
    THEN [safe |-> FALSE, reason |-> MsgEmptyOrInvalid, confidence |-> 100]
  ELSE
  LET question_stripped == Strip(question)
      invalid_pattern_result == check_invalid_patterns(question_stripped)
      injection_score == calculate_injection_score(question_stripped)
  IN  IF Len(question_stripped) < min_question_length
        THEN [safe |-> FALSE, reason |-> MsgTooShort, confidence |-> 100]
      ELSE IF Len(question_stripped) > max_question_length
        THEN [safe |-> FALSE, reason |-> MsgTooLong, confidence |-> 100]
      ELSE IF ~invalid_pattern_result.valid
        THEN [safe |-> FALSE, reason |-> invalid_pattern_result.reason, confidence |-> 100]
      ELSE IF MatchesHarmful(question_stripped)
        THEN [safe |-> FALSE, reason |-> MsgHarmful, confidence |-> 80]
      ELSE IF injection_score > 50
        THEN [safe |-> FALSE,
              reason |-> MsgInjectionPrefix \o FormatScore(injection_score) \o <<")">>,
              confidence |-> injection_score]
      ELSE [safe |-> TRUE, reason |-> MsgInputSafe, confidence |-> 90]

\* redact_pii
redact_pii(text) ==
  IF text = <<>> THEN <<>>
  ELSE ReSub(secrets_pattern, RedactedSecret,
         ReSub(account_pattern, RedactedAccount,
           ReSub(phone_pattern, RedactedPhone,
             ReSub(email_pattern, RedactedEmail, text, FALSE), FALSE), FALSE), TRUE)

\* hash_content: SHA-256 of the redacted text, as an injective digest of it
Sha256(t) == <<"sha256:">> \o t
hash_content(content) == Sha256(redact_pii(content))

\* _check_harmful_content_in_response
FirstKeywordIn(t) ==
  SetMin({k \in 1..Len(harmful_keywords) : Contains(t, harmful_keywords[k])})
check_harmful_content_in_response(response) ==
  IF MatchesHarmful(response)
    THEN [safe |-> FALSE, reason |-> MsgRespHarmful]
  ELSE IF \E k \in 1..Len(harmful_keywords) : Contains(Lower(response), harmful_keywords[k])
    THEN [safe |-> FALSE,
          reason |-> MsgRespProhibitedPrefix \o harmful_keywords[FirstKeywordIn(Lower(response))]]
  ELSE [safe |-> TRUE, reason |-> MsgRespSafe]

\* _check_invalid_response_patterns
check_invalid_response_patterns(response) ==
  IF response = <<>> \/ Len(Strip(response)) < 10
    THEN [valid |-> FALSE, reason |-> MsgRespTooShort]
  ELSE
  LET stripped == Strip(response)
      harmful_content == check_harmful_content_in_response(stripped)
  IN  IF ReMatch(OnlyNumeric, Prefix(stripped, 100), FALSE)
        THEN [valid |-> FALSE, reason |-> MsgRespOnlyNumbers]
      ELSE IF ReMatch(OnlyAsterisks, Prefix(stripped, 100), FALSE)
        THEN [valid |-> FALSE, reason |-> MsgRespOnlySpecial]
      ELSE IF ~harmful_content.safe
        THEN [valid |-> FALSE, reason |-> harmful_content.reason]
      ELSE [valid |-> TRUE, reason |-> MsgRespValid]

mask_output_pii_first(text) ==
  LET safe == redact_pii(text)
      invalid_response == check_invalid_response_patterns(safe)
  IN  IF safe # text
        THEN [action |-> "allow-masked", text |-> safe, severity |-> "medium", reason |-> <<>>]
      ELSE IF ~invalid_response.valid
        THEN [action |-> "block", text |-> safe, severity |-> "high",
              reason |-> invalid_response.reason]
      ELSE [action |-> "allow", text |-> safe, severity |-> "low", reason |-> <<>>]
\* mask_output; reason is the empty text where the code returns no reason
mask_output(text) ==
  LET safe == redact_pii(text)
      has_pii == safe # text
      invalid_response == check_invalid_response_patterns(safe)
  IN  IF ~invalid_response.valid
        THEN [action |-> "block", text |-> safe, severity |-> "high",
              reason |-> invalid_response.reason]
      ELSE IF has_pii
        THEN [action |-> "allow-masked", text |-> safe, severity |-> "medium", reason |-> <<>>]
      ELSE [action |-> "allow", text |-> safe, severity |-> "low", reason |-> <<>>]


\* _strip_control_phrases: each pattern is substituted in turn, re.IGNORECASE
Sp == Plus(Set(SpaceChars))
control_phrases ==
  << \* ignore\s+(all\s+)?(previous\s+)?(your\s+)?instructions?
     Cat(<<Str(<<"i","g","n","o","r","e">>), Sp, Opt(Cat(<<Str(<<"a","l","l">>), Sp>>)),
           Opt(Cat(<<Str(<<"p","r","e","v","i","o","u","s">>), Sp>>)), Opt(Cat(<<Str(<<"y","o","u","r">>), Sp>>)),
           Str(<<"i","n","s","t","r","u","c","t","i","o","n">>), Opt(Lit("s"))>>),
     \* ignore\s+all\s+previous
     Cat(<<Str(<<"i","g","n","o","r","e">>), Sp, Str(<<"a","l","l">>), Sp, Str(<<"p","r","e","v","i","o","u","s">>)>>),
     \* forget\s+(everything|all)\s+(I\s+said|previous)
     Cat(<<Str(<<"f","o","r","g","e","t">>), Sp, Alt(<<Str(<<"e","v","e","r","y","t","h","i","n","g">>), Str(<<"a","l","l">>)>>), Sp,
           Alt(<<Cat(<<Lit("I"), Sp, Str(<<"s","a","i","d">>)>>), Str(<<"p","r","e","v","i","o","u","s">>)>>)>>),
     \* reveal\s+(system|hidden|your)\s+prompt
     Cat(<<Str(<<"r","e","v","e","a","l">>), Sp, Alt(<<Str(<<"s","y","s","t","e","m">>), Str(<<"h","i","d","d","e","n">>), Str(<<"y","o","u","r">>)>>), Sp,
           Str(<<"p","r","o","m","p","t">>)>>),
     \* from\s+now\s+on\s+obey\s+me
     Cat(<<Str(<<"f","r","o","m">>), Sp, Str(<<"n","o","w">>), Sp, Str(<<"o","n">>), Sp, Str(<<"o","b","e","y">>), Sp,
           Str(<<"m","e">>)>>),
     \* developer\s+mode
     Cat(<<Str(<<"d","e","v","e","l","o","p","e","r">>), Sp, Str(<<"m","o","d","e">>)>>),
     \* jailbreak
     Str(<<"j","a","i","l","b","r","e","a","k">>),
     \* act\s+as\s+.*?admin
     Cat(<<Str(<<"a","c","t">>), Sp, Str(<<"a","s">>), Sp, Lazy(NotSet({"\n"}), 0, -1), Str(<<"a","d","m","i","n">>)>>) >>

RECURSIVE StripFrom(_, _)
StripFrom(k, text) ==
  IF k > Len(control_phrases) THEN text
  ELSE StripFrom(k + 1, ReSub(control_phrases[k], BlockedControl, text, TRUE))
strip_control_phrases(text) == StripFrom(1, text)

\* _literalize_code_blocks: code_fence_pattern.sub(wrap, text), wrap using group 1
RECURSIVE LiteralizeFrom(_, _)
LiteralizeFrom(t, p) ==
  LET q == NextMatch(code_fence_pattern, t, p, FALSE)
      e == Head(Ends(code_fence_pattern, t, q, FALSE))
  IN  IF q = 0 THEN SubSeq(t, p, Len(t))
      ELSE SubSeq(t, p, q - 1) \o UserCodeOpen \o Strip(SubSeq(t, q + 3, e - 4))
             \o UserCodeClose \o LiteralizeFrom(t, e)
literalize_code_blocks(text) == LiteralizeFrom(text, 1)

\* sanitize_user_input
sanitize_user_input(text) ==
  IF text = <<>> THEN <<>>
  ELSE Strip(literalize_code_blocks(strip_control_phrases(text)))

\* ------------------------------------------------------------ json.loads
\* What process_query needs of json.loads(output_content): whether it raises
\* JSONDecodeError ("invalid"), returns a dict ("object") or returns a value
\* of another type ("other").  JValue(t, p) is the position after the JSON
\* value that starts at position p, or 0 when there is none.

HexChars == Digits \cup {"a","b","c","d","e","f","A","B","C","D","E","F"}
JStringRe ==
  Cat(<<Lit("\""),
        Star(Alt(<<NotSet({"\"", "\\", "\t", "\n", "\r"}),
                   Cat(<<Lit("\\"), Set({"\"", "\\", "/", "b", "f", "n", "r", "t"})>>),
                   Cat(<<Lit("\\"), Lit("u"), Rep(Set(HexChars), 4, 4)>>)>>)),
        Lit("\"")>>)
JNumberRe ==
  Cat(<<Opt(Lit("-")),
        Alt(<<Lit("0"), Cat(<<Set(Digits \ {"0"}), Star(Set(Digits))>>)>>),
        Opt(Cat(<<Lit("."), Plus(Set(Digits))>>)),
        Opt(Cat(<<Set({"e", "E"}), Opt(Set({"-", "+"})), Plus(Set(Digits))>>))>>)
JLiterals ==
  << <<"n","u","l","l">>, <<"t","r","u","e">>, <<"f","a","l","s","e">>,
     <<"N","a","N">>, <<"I","n","f","i","n","i","t","y">>,
     <<"-","I","n","f","i","n","i","t","y">> >>

FirstEnd(es) == IF es = <<>> THEN 0 ELSE Head(es)
StartsAt(t, p, w) == p + Len(w) - 1 <= Len(t) /\ SubSeq(t, p, p + Len(w) - 1) = w
SkipWs(t, p) ==
  LET rest == {i \in p..Len(t) : t[i] \notin {" ", "\t", "\n", "\r"}}
  IN  IF rest = {} THEN Len(t) + 1 ELSE SetMin(rest)
CharAt(t, p) == IF p >= 1 /\ p <= Len(t) THEN t[p] ELSE ""

RECURSIVE JValue(_, _)
RECURSIVE JElems(_, _)
RECURSIVE JMembers(_, _)
JValue(t, p) ==
  IF p < 1 \/ p > Len(t) THEN 0
  ELSE IF t[p] = "{"
    THEN LET q == SkipWs(t, p + 1)
         IN  IF CharAt(t, q) = "}" THEN q + 1 ELSE JMembers(t, q)
  ELSE IF t[p] = "["
    THEN LET q == SkipWs(t, p + 1)
         IN  IF CharAt(t, q) = "]" THEN q + 1 ELSE JElems(t, q)
  ELSE IF t[p] = "\"" THEN FirstEnd(Ends(JStringRe, t, p, FALSE))
  ELSE IF \E k \in 1..3 : StartsAt(t, p, JLiterals[k])
    THEN p + Len(JLiterals[CHOOSE k \in 1..3 : StartsAt(t, p, JLiterals[k])])
  ELSE IF Ends(JNumberRe, t, p, FALSE) # <<>> THEN Head(Ends(JNumberRe, t, p, FALSE))
  ELSE IF \E k \in 4..6 : StartsAt(t, p, JLiterals[k])
    THEN p + Len(JLiterals[CHOOSE k \in 4..6 : StartsAt(t, p, JLiterals[k])])
  ELSE 0
JElems(t, p) ==
  LET e == JValue(t, p)
      q == SkipWs(t, e)
  IN  IF e = 0 THEN 0
      ELSE IF CharAt(t, q) = "," THEN JElems(t, SkipWs(t, q + 1))
      ELSE IF CharAt(t, q) = "]" THEN q + 1
      ELSE 0
JMembers(t, p) ==
  LET e == IF CharAt(t, p) = "\"" THEN FirstEnd(Ends(JStringRe, t, p, FALSE)) ELSE 0
      q == SkipWs(t, e)
      v == IF e # 0 /\ CharAt(t, q) = ":" THEN JValue(t, SkipWs(t, q + 1)) ELSE 0
      r == SkipWs(t, v)
  IN  IF v = 0 THEN 0
      ELSE IF CharAt(t, r) = "," THEN JMembers(t, SkipWs(t, r + 1))
      ELSE IF CharAt(t, r) = "}" THEN r + 1
      ELSE 0
JsonKind(t) ==
  LET p == SkipWs(t, 1)
      e == JValue(t, p)
  IN  IF e = 0 \/ SkipWs(t, e) # Len(t) + 1 THEN "invalid"
      ELSE IF t[p] = "{" THEN "object"
      ELSE "other"

\* ------------------------------------------------ run_query.py: TextUtility

\* the fixed texts of run_query.py
MsgBasicEmpty == <<"E","m","p","t","y"," ","o","r"," ","t","o","o"," ","s","h","o","r","t">>
MsgBasicTooLong == <<"T","o","o"," ","l","o","n","g">>
MsgBasicPassed == <<"P","a","s","s","e","d"," ","b","a","s","i","c"," ","c","h","e","c","k","s">>
MsgCannotProcess == <<"I"," ","c","a","n","n","o","t"," ","p","r","o","c","e","s","s"," ","t","h","i","s"," ","r","e","q","u","e","s","t">>
MsgRephrase == <<"P","l","e","a","s","e"," ","r","e","p","h","r","a","s","e"," ","y","o","u","r"," ","q","u","e","s","t","i","o","n">>
MsgNoProviderAnswer == <<"N","o"," ","A","I"," ","p","r","o","v","i","d","e","r"," ","a","v","a","i","l","a","b","l","e","."," ","P","l","e","a","s","e"," ","c","o","n","f","i","g","u","r","e"," ","A","P","I"," ","k","e","y","s",".">>
MsgCheckKeys == <<"C","h","e","c","k"," ","y","o","u","r"," ","A","P","I"," ","k","e","y"," ","c","o","n","f","i","g","u","r","a","t","i","o","n">>
MsgNoProvider == <<"N","o"," ","A","I"," ","p","r","o","v","i","d","e","r"," ","a","v","a","i","l","a","b","l","e">>
MsgErrorProcessing == <<"E","r","r","o","r"," ","p","r","o","c","e","s","s","i","n","g"," ","r","e","q","u","e","s","t",":"," ">>
MsgTryLater == <<"P","l","e","a","s","e"," ","t","r","y"," ","a","g","a","i","n"," ","l","a","t","e","r">>
MsgTryAgain == <<"P","l","e","a","s","e"," ","t","r","y"," ","a","g","a","i","n">>
MsgInvalidResponse == <<"I","n","v","a","l","i","d"," ","r","e","s","p","o","n","s","e"," ","d","e","t","e","c","t","e","d",":"," ">>
MsgErrorParsing == <<"E","r","r","o","r"," ","p","a","r","s","i","n","g"," ","r","e","s","p","o","n","s","e">>
MsgUnknownProvider == <<"U","n","k","n","o","w","n"," ","p","r","o","v","i","d","e","r">>
MsgNoUsage == <<"'","N","o","n","e","T","y","p","e","'"," ","o","b","j","e","c","t"," ","h","a","s"," ","n","o"," ","a","t","t","r","i","b","u","t","e"," ","'","p","r","o","m","p","t","_","t","o","k","e","n","s","'">>

None == [provider |-> "none", model |-> "none"]

\* valid_providers, as the text compared with the environment's entries and as
\* the identifier used everywhere else
ProviderNames ==
  << <<"o","p","e","n","r","o","u","t","e","r">>,
     <<"g","e","m","i","n","i">>,
     <<"o","p","e","n","a","i">> >>
valid_providers == <<"openrouter", "gemini", "openai">>
default_priority == <<"openrouter", "gemini", "openai">>
IsValidName(p) == \E k \in 1..Len(ProviderNames) : ProviderNames[k] = p
IdOf(p) == valid_providers[CHOOSE k \in 1..Len(ProviderNames) : ProviderNames[k] = p]

\* str.split(',')
RECURSIVE Split(_)
Split(t) ==
  LET commas == {i \in 1..Len(t) : t[i] = ","}
  IN  IF commas = {} THEN <<t>>
      ELSE <<SubSeq(t, 1, SetMin(commas) - 1)>> \o Split(SubSeq(t, SetMin(commas) + 1, Len(t)))

get_provider_priority_default_only(env) == default_priority
\* _get_provider_priority, from the value of PROVIDER_PRIORITY ('' when unset)
get_provider_priority(env) ==
  LET priority_str == Strip(env)
      entries == Split(priority_str)
      lowered == [k \in 1..Len(entries) |-> Lower(Strip(entries[k]))]
      priority_list == SelectSeq(lowered, IsValidName)
  IN  IF priority_str # <<>> /\ priority_list # <<>>
      THEN [k \in 1..Len(priority_list) |-> IdOf(priority_list[k])]
      ELSE default_priority

\* the defaults of OPENROUTER_MODEL, GEMINI_MODEL and OPENAI_MODEL
DefaultModel ==
  [p \in {"openrouter", "gemini", "openai"} |->
     CASE p = "openrouter" -> "openai/gpt-3.5-turbo"
       [] p = "gemini" -> "gemini-2.5-flash"
       [] p = "openai" -> "gpt-3.5-turbo"]

\* _initialize_single_provider: None without the provider's API key
initialize_single_provider(provider_name, keys) ==
  IF provider_name \in keys
  THEN [provider |-> provider_name, model |-> DefaultModel[provider_name]]
  ELSE None

\* the first provider of the list, other than skip, that initializes
FirstInitialized(priority, keys, skip) ==
  LET ok == {k \in 1..Len(priority) :
               priority[k] # skip /\ initialize_single_provider(priority[k], keys) # None}
  IN  IF ok = {} THEN None ELSE initialize_single_provider(priority[SetMin(ok)], keys)

\* _initialize_ai_providers: the 'primary' entry, or None for the empty dict
initialize_ai_providers(env, keys) == FirstInitialized(get_provider_priority(env), keys, "")

try_fallback_provider_not_skipping(env, keys, current_provider_name) ==
  FirstInitialized(get_provider_priority(env), keys, "")
\* _try_fallback_provider's loop, given the name read from self._current_provider
try_fallback_provider(env, keys, current_provider_name) ==
  FirstInitialized(get_provider_priority(env), keys, current_provider_name)

\* _calculate_cost, in units of 1e-8 USD: 1.25 and 10.00 USD per million tokens
pricing ==
  [p \in {"openai", "gemini", "openrouter"} |-> [prompt |-> 125, completion |-> 1000]]
calculate_cost(provider, prompt_tokens, completion_tokens) ==
  LET p == IF provider \in DOMAIN pricing THEN pricing[provider] ELSE pricing["openrouter"]
  IN  prompt_tokens * p.prompt + completion_tokens * p.completion

\* round(cost, 6), in units of 1e-6 USD.  The cost is a binary float, so a cost
\* that is half way between two values in decimal rounds to either.
Round6(cost) ==
  IF cost % 100 = 50 THEN {cost \div 100, cost \div 100 + 1}
  ELSE {(cost + 50) \div 100}

\* len(_get_default_prompt().format(question=''))
prompt_template_len == 560

\* max(1, len(text) // 3.5)
EstimateTokens(n) == MaxOf(1, (2 * n) \div 7)

\* the fence clean-up of _call_gemini and _call_openrouter
DropPrefix(t, p) == IF StartsWith(t, p) THEN SubSeq(t, Len(p) + 1, Len(t)) ELSE t
DropSuffix(t, p) == IF EndsWith(t, p) THEN SubSeq(t, 1, Len(t) - Len(p)) ELSE t
CleanContent(text) ==
  Strip(DropSuffix(DropPrefix(DropPrefix(Strip(text), FenceJson), Fence), Fence))

Failure(error) ==
  [success |-> FALSE, error |-> error, content |-> <<>>,
   tokens_prompt |-> 0, tokens_completion |-> 0]
Success(content, tokens_prompt, tokens_completion) ==
  [success |-> TRUE, error |-> <<>>, content |-> content,
   tokens_prompt |-> tokens_prompt, tokens_completion |-> tokens_completion]

\* A backend's answer to one request: it raises (error is str(e)), or returns a
\* text and a usage, <<prompt_tokens, completion_tokens>> or <<>> for None.
\* _call_openai
call_openai(resp) ==
  IF resp.usage = <<>> THEN Failure(MsgNoUsage)
  ELSE Success(Strip(resp.text), resp.usage[1], resp.usage[2])
\* _call_gemini, of the cleaned content
GeminiResult(content, prompt_len) ==
  Success(content, EstimateTokens(prompt_len), EstimateTokens(Len(content)))
call_gemini(resp, prompt_len) == GeminiResult(CleanContent(resp.text), prompt_len)
\* _call_openrouter, of the cleaned content
OpenrouterResult(content, usage, prompt_len) ==
  Success(content,
          IF usage # <<>> THEN usage[1] ELSE EstimateTokens(prompt_len),
          IF usage # <<>> THEN usage[2] ELSE EstimateTokens(Len(content)))
call_openrouter(resp, prompt_len) ==
  OpenrouterResult(CleanContent(resp.text), resp.usage, prompt_len)
\* _call_ai_provider: an exception of the call becomes a failed result
call_ai_provider(provider_info, prompt_len, resp) ==
  IF resp.raises THEN Failure(resp.error)
  ELSE CASE provider_info.provider = "openai" -> call_openai(resp)
         [] provider_info.provider = "gemini" -> call_gemini(resp, prompt_len)
         [] provider_info.provider = "openrouter" -> call_openrouter(resp, prompt_len)
         [] OTHER -> Failure(MsgUnknownProvider)

\* _safety_check: the checker's verdict, or the basic checks without it
safety_check(question, has_checker) ==
  IF has_checker THEN check_safety(question)
  ELSE IF question = <<>> \/ Len(Strip(question)) < 3
    THEN [safe |-> FALSE, reason |-> MsgBasicEmpty]
  ELSE IF Len(question) > 2000 THEN [safe |-> FALSE, reason |-> MsgBasicTooLong]
  ELSE [safe |-> TRUE, reason |-> MsgBasicPassed]

\* the header row of _init_metrics_file and the row of _log_metrics (without
\* its clock readings, timestamp and latency_ms)
HeaderRow ==
  [kind |-> "header",
   columns |-> <<"timestamp", "question", "provider", "model", "tokens_prompt",
                 "tokens_completion", "total_tokens", "latency_ms",
                 "estimated_cost_usd", "safety_check_passed", "question_hash",
                 "output_hash">>]
\* _log_metrics, lines 184-191: the texts of the row
log_metrics_texts(question, output_text, has_checker) ==
  [question |-> IF has_checker THEN redact_pii(Prefix(question, 100))
                ELSE Prefix(question, 100),
   question_hash |-> IF has_checker THEN hash_content(question) ELSE <<>>,
   output_hash |-> IF has_checker /\ output_text # <<>> THEN hash_content(output_text)
                   ELSE <<>>]
log_metrics_row_passed(texts, provider, prompt_tokens, completion_tokens, cost6, safety_passed, model) ==
  [kind |-> "record", question |-> texts.question, provider |-> provider,
   model |-> model, tokens_prompt |-> prompt_tokens,
   tokens_completion |-> completion_tokens,
   total_tokens |-> prompt_tokens + completion_tokens,
   estimated_cost_usd |-> cost6, safety_check_passed |-> TRUE,
   question_hash |-> texts.question_hash, output_hash |-> texts.output_hash]
\* _log_metrics, lines 195-208: the row, of the texts and the numbers
log_metrics_row(texts, provider, prompt_tokens, completion_tokens, cost6, safety_passed, model) ==
  [kind |-> "record",
   question |-> texts.question,
   provider |-> provider,
   model |-> model,
   tokens_prompt |-> prompt_tokens,
   tokens_completion |-> completion_tokens,
   total_tokens |-> prompt_tokens + completion_tokens,
   estimated_cost_usd |-> cost6,
   safety_check_passed |-> safety_passed,
   question_hash |-> texts.question_hash,
   output_hash |-> texts.output_hash]

\* process_query, lines 426-476: what the output gate, json.loads and the
\* second validation make of a backend's content
NoMask(content) ==
  [action |-> "none", text |-> content, severity |-> "none", reason |-> <<>>]
\* lines 458-476, of the text that line 455 leaves in output_content
GateChecked(mask_result, output_content, has_checker) ==
  [action |-> mask_result.action,
   reason |-> mask_result.reason,
   output_content |-> output_content,
   json |-> JsonKind(output_content),
   safety_passed |-> IF has_checker
                     THEN check_invalid_response_patterns(output_content).valid
                     ELSE TRUE]
GateMaskedRawChecked(mask_result, content, has_checker) ==
  [GateChecked(mask_result,
               IF mask_result.action = "allow-masked" THEN mask_result.text ELSE content,
               has_checker)
     EXCEPT !.safety_passed = IF has_checker
                              THEN check_invalid_response_patterns(content).valid
                              ELSE TRUE]
\* lines 430-456, of the verdict of mask_output
GateMasked(mask_result, content, has_checker) ==
  GateChecked(mask_result,
              IF mask_result.action = "allow-masked" THEN mask_result.text ELSE content,
              has_checker)
output_gate(content, has_checker) ==
  GateMasked(IF has_checker THEN mask_output(content) ELSE NoMask(content),
             content, has_checker)

\* the results of process_query.  keys is the set of keys of the returned dict;
\* a value the dict does not hold is the empty text here.
ZeroMetrics ==
  [tokens_prompt |-> 0, tokens_completion |-> 0, total_tokens |-> 0,
   estimated_cost_usd |-> 0, provider |-> "absent", model |-> "absent"]
CallMetricsPromptOnly(api_result, cost6, provider_info) ==
  [tokens_prompt |-> api_result.tokens_prompt,
   tokens_completion |-> api_result.tokens_completion,
   total_tokens |-> api_result.tokens_prompt,
   estimated_cost_usd |-> cost6,
   provider |-> provider_info.provider, model |-> provider_info.model]
CallMetrics(api_result, cost6, provider_info) ==
  [tokens_prompt |-> api_result.tokens_prompt,
   tokens_completion |-> api_result.tokens_completion,
   total_tokens |-> api_result.tokens_prompt + api_result.tokens_completion,
   estimated_cost_usd |-> cost6,
   provider |-> provider_info.provider, model |-> provider_info.model]
FixedKeys == {"answer", "confidence", "actions", "category", "follow_up", "metrics"}
NoResult ==
  [keys |-> {}, answer |-> <<>>, confidence |-> 0, actions |-> <<>>, category |-> "",
   safety_warning |-> <<>>, error |-> <<>>, metrics |-> ZeroMetrics, parsed |-> <<>>]
RejectedResultWithoutReason(reason) ==
  [keys |-> FixedKeys, answer |-> MsgCannotProcess,
   confidence |-> 100, actions |-> <<MsgRephrase>>, category |-> "other",
   safety_warning |-> <<>>, error |-> <<>>, metrics |-> ZeroMetrics, parsed |-> <<>>]
RejectedResult(reason) ==
  [keys |-> FixedKeys \cup {"safety_warning"}, answer |-> MsgCannotProcess,
   confidence |-> 100, actions |-> <<MsgRephrase>>, category |-> "other",
   safety_warning |-> reason, error |-> <<>>, metrics |-> ZeroMetrics, parsed |-> <<>>]
NoProviderResult ==
  [keys |-> FixedKeys \cup {"error"}, answer |-> MsgNoProviderAnswer,
   confidence |-> 0, actions |-> <<MsgCheckKeys>>, category |-> "other",
   safety_warning |-> <<>>, error |-> MsgNoProvider, metrics |-> ZeroMetrics,
   parsed |-> <<>>]
FailedResult(error) ==
  [keys |-> FixedKeys \cup {"error"}, answer |-> MsgErrorProcessing \o error,
   confidence |-> 0, actions |-> <<MsgTryLater>>, category |-> "other",
   safety_warning |-> <<>>, error |-> error, metrics |-> ZeroMetrics, parsed |-> <<>>]
BlockedResult(reason, metrics) ==
  [keys |-> FixedKeys \cup {"safety_warning"}, answer |-> MsgCannotProcess,
   confidence |-> 100, actions |-> <<MsgTryAgain>>, category |-> "other",
   safety_warning |-> MsgInvalidResponse \o reason, error |-> <<>>, metrics |-> metrics,
   parsed |-> <<>>]
\* the default payload after JSONDecodeError
ParseErrorResult(metrics) ==
  [keys |-> FixedKeys, answer |-> MsgErrorParsing, confidence |-> 0,
   actions |-> <<MsgTryAgain>>, category |-> "other", safety_warning |-> <<>>,
   error |-> <<>>, metrics |-> metrics, parsed |-> <<>>]
\* the dict json.loads made of output_content, with 'metrics' added: parsed is
\* the text it was made of
ParsedResult(output_content, metrics) ==
  [keys |-> {"metrics"}, answer |-> <<>>, confidence |-> 0, actions |-> <<>>,
   category |-> "", safety_warning |-> <<>>, error |-> <<>>, metrics |-> metrics,
   parsed |-> output_content]

\* -------------------------------------------------------- sample inputs
QReset == <<"H","o","w"," ","d","o"," ","I"," ","r","e","s","e","t"," ","m","y"," ","p","a","s","s","w","o","r","d","?">>
QShort == <<"h","i">>
EnvUnset == <<>>
EnvGeminiFirst == <<"G","e","m","i","n","i",","," ","o","p","e","n","r","o","u","t","e","r">>
ErrTimeout == <<"C","o","n","n","e","c","t","i","o","n"," ","t","i","m","e","d"," ","o","u","t">>
OutJson == <<"{","\"","a","n","s","w","e","r","\"",":","\"","G","o"," ","t","o"," ","s","e","t","t","i","n","g","s","\"","}">>
OutHarmful == <<"{","\"","a","n","s","w","e","r","\"",":","\"","h","a","c","k"," ","i","t","\"","}">>
OutEmail == <<"m","y"," ","e","m","a","i","l"," ","i","s"," ","a","@","b",".","c","o","m">>
OutList == <<"[","\"","n","o","t"," ","a","n"," ","o","b","j","e","c","t","\"","]">>
QEmail == <<"E","m","a","i","l"," ","m","e"," ","a","t"," ","a","@","b",".","c","o","m"," ","p","l","e","a","s","e">>
OutDigits == <<"1","1","1","1","1","1","1","1","1">>
NumThreads == 2
MaxOps == 3
MaxInstances == 2
Threads == 1..NumThreads

Questions == {QReset, QShort, QEmail}
KeySets == {{}, {"gemini"}, {"openrouter", "gemini"}, {"openrouter", "gemini", "openai"}}
PriorityEnvs == {EnvUnset, EnvGeminiFirst}
Responses ==
  { [raises |-> TRUE, error |-> ErrTimeout, text |-> <<>>, usage |-> <<>>] }
  \cup { [raises |-> FALSE, error |-> <<>>, text |-> x, usage |-> <<12, 7>>] :
           x \in {OutJson, OutHarmful, OutEmail, OutList, OutDigits} }
  \cup { [raises |-> FALSE, error |-> <<>>, text |-> OutJson, usage |-> <<>>] }

\* what the pure steps make of the sample inputs, computed once
Contents ==
  {Strip(resp.text) : resp \in Responses} \cup {CleanContent(resp.text) : resp \in Responses}
SafetyCheckOf == [q \in Questions, c \in BOOLEAN |-> safety_check(q, c)]
PromptLenOf ==
  [q \in Questions, c \in BOOLEAN |->
     prompt_template_len + Len(IF c THEN sanitize_user_input(q) ELSE q)]
OutputGateOf == [x \in Contents, c \in BOOLEAN |-> output_gate(x, c)]
OutputTexts == Contents \cup {OutputGateOf[x, c].output_content : x \in Contents, c \in BOOLEAN}
LogTextsOf ==
  [q \in Questions, x \in OutputTexts, c \in BOOLEAN |-> log_metrics_texts(q, x, c)]

\* ------------------------------------------------------------ state
\* The environment (API keys present, PROVIDER_PRIORITY, whether safety.py can
\* be imported), the metrics file, the TextUtility instances, and the threads
\* that construct instances and call process_query on them.  probe is a direct
\* call of one method with one argument, as the unit tests make them.
VARIABLES api_keys, priority_env, safety_module, file_exists, metrics_file,
          instances, pc, loc, ops, probe

vars == <<api_keys, priority_env, safety_module, file_exists, metrics_file,
          instances, pc, loc, ops, probe>>
environment == <<api_keys, priority_env, safety_module>>

\* no direct call is made
NoProbe ==
  [fn |-> "none", of |-> "none", arg |-> <<>>, keys |-> {}, counts |-> <<0, 0, 0>>,
   result |-> <<>>]

NoRow == [kind |-> "none"]
TornRow == [kind |-> "torn"]

\* the locals of a thread's operation, and what the operation has done so far
NoLocals ==
  [inst |-> 0, question |-> <<>>, verdict_safe |-> TRUE, provider_info |-> None,
   prompt_len |-> 0, error |-> <<>>, current_provider_name |-> "none",
   fallback_attempted |-> FALSE, fallback_info |-> None, calls |-> <<>>,
   content |-> <<>>, mask_action |-> "none", row |-> NoRow, pending |-> NoResult,
   pending_outcome |-> "none", appended |-> <<>>, result |-> NoResult,
   outcome |-> "none"]

Init ==
  /\ api_keys \in KeySets
  /\ priority_env \in PriorityEnvs
  /\ safety_module \in BOOLEAN
  /\ file_exists \in BOOLEAN
  /\ metrics_file = IF file_exists THEN <<HeaderRow>> ELSE <<>>
  /\ instances = <<>>
  /\ pc = [t \in Threads |-> "idle"]
  /\ loc = [t \in Threads |-> NoLocals]
  /\ ops = 0
  /\ probe = NoProbe

Free(t) == pc[t] \in {"idle", "done"} /\ ops < MaxOps

\* TextUtility.__init__ up to the test of line 28
Construct(t) ==
  /\ Free(t)
  /\ Len(instances) < MaxInstances
  /\ instances' = Append(instances,
       [current_provider |-> initialize_ai_providers(priority_env, api_keys),
        safety_checker |-> safety_module,
        ready |-> file_exists])
  /\ loc' = [loc EXCEPT ![t] = [NoLocals EXCEPT !.inst = Len(instances) + 1,
                                  !.outcome = IF file_exists THEN "Constructed" ELSE "none"]]
  /\ pc' = [pc EXCEPT ![t] = IF file_exists THEN "done" ELSE "init_open"]
  /\ ops' = ops + 1
  /\ UNCHANGED <<environment, probe, file_exists, metrics_file>>

\* _init_metrics_file: open(..., 'w') creates the file or truncates it
InitOpen(t) ==
  /\ pc[t] = "init_open"
  /\ file_exists' = TRUE
  /\ metrics_file' = <<>>
  /\ pc' = [pc EXCEPT ![t] = "init_write"]
  /\ UNCHANGED <<environment, probe, instances, loc, ops>>

\* What a write of the header at offset 0 leaves: the header takes the place of
\* the first row, and of a record there a torn rest remains.
WriteAtStart(file) ==
  IF file = <<>> THEN <<HeaderRow>>
  ELSE IF Head(file) = HeaderRow THEN file
  ELSE <<HeaderRow, TornRow>> \o Tail(file)

\* _init_metrics_file: the header leaves the buffer when the file is closed
InitWrite(t) ==
  /\ pc[t] = "init_write"
  /\ metrics_file' = WriteAtStart(metrics_file)
  /\ instances' = [instances EXCEPT ![loc[t].inst].ready = TRUE]
  /\ loc' = [loc EXCEPT ![t].outcome = "Constructed"]
  /\ pc' = [pc EXCEPT ![t] = "done"]
  /\ UNCHANGED <<environment, probe, file_exists, ops>>

\* process_query, lines 350-392: the input gate, the current provider, the prompt
Started(l0, safety_result, provider_info, prompt_len) ==
  IF ~safety_result.safe
  THEN [l0 EXCEPT !.verdict_safe = FALSE,
                  !.result = RejectedResult(safety_result.reason),
                  !.outcome = "Rejected"]
  ELSE IF provider_info = None
  THEN [l0 EXCEPT !.result = NoProviderResult, !.outcome = "NoProvider"]
  ELSE [l0 EXCEPT !.provider_info = provider_info, !.prompt_len = prompt_len]
StartQuery(t, i, question) ==
  /\ Free(t)
  /\ instances[i].ready
  /\ ops' = ops + 1
  /\ loc' = [loc EXCEPT ![t] =
       Started([NoLocals EXCEPT !.inst = i, !.question = question],
               SafetyCheckOf[question, safety_module],
               instances[i].current_provider,
               PromptLenOf[question, safety_module])]
  /\ pc' = [pc EXCEPT ![t] = IF loc'[t].outcome = "none" THEN "call_primary" ELSE "done"]
  /\ UNCHANGED <<environment, probe, file_exists, metrics_file, instances>>

\* the result that lines 436-453 and 458-493 make of the gate's verdict
PendingResult(gate, metrics) ==
  CASE gate.action = "block" -> BlockedResult(gate.reason, metrics)
    [] gate.json = "object" -> ParsedResult(gate.output_content, metrics)
    [] gate.json = "invalid" -> ParseErrorResult(metrics)
    [] OTHER -> NoResult
PendingOutcome(gate) ==
  CASE gate.action = "block" -> "Blocked"
    [] gate.json = "other" -> "Raised"
    [] OTHER -> "Delivered"

\* process_query, lines 426-479 up to the append of _log_metrics: the row and
\* the result that the output gate's verdict leads to
Recorded(l, api_result, provider_info, cost6, gate, texts) ==
  [l EXCEPT !.provider_info = provider_info,
            !.content = api_result.content,
            !.mask_action = gate.action,
            !.row = log_metrics_row(texts, provider_info.provider,
                      api_result.tokens_prompt, api_result.tokens_completion, cost6,
                      gate.action # "block" /\ gate.safety_passed, provider_info.model),
            !.pending = PendingResult(gate, CallMetrics(api_result, cost6, provider_info)),
            !.pending_outcome = PendingOutcome(gate)]
Gated(l, api_result, provider_info, cost6, gate) ==
  Recorded(l, api_result, provider_info, cost6, gate,
           LogTextsOf[l.question,
                      IF gate.action = "block" THEN api_result.content
                      ELSE gate.output_content,
                      safety_module])
OutputGate(l, api_result, provider_info, cost6) ==
  Gated(l, api_result, provider_info, cost6,
        OutputGateOf[api_result.content, safety_module])

\* the result of lines 408-424
AllFailed(l, error) ==
  [l EXCEPT !.result = FailedResult(error), !.outcome = "AllProvidersFailed"]

\* a call of _call_ai_provider has returned api_result: the thread goes on to
\* the output gate (lines 426-479) after a success, and to after_failure
\* otherwise
Called(l, provider_info, api_result) ==
  [l EXCEPT !.calls = Append(@, [provider |-> provider_info.provider,
                                 model |-> provider_info.model,
                                 success |-> api_result.success]),
            !.error = IF api_result.success THEN @ ELSE api_result.error]
Returned(t, provider_info, api_result, after_failure) ==
  /\ IF api_result.success
     THEN /\ \E cost6 \in Round6(calculate_cost(provider_info.provider,
                             api_result.tokens_prompt, api_result.tokens_completion)) :
               loc' = [loc EXCEPT ![t] =
                 OutputGate(Called(loc[t], provider_info, api_result), api_result,
                            provider_info, cost6)]
          /\ pc' = [pc EXCEPT ![t] = "log_open"]
     ELSE /\ loc' = [loc EXCEPT ![t] =
               IF after_failure = "done"
               THEN AllFailed(Called(loc[t], provider_info, api_result), api_result.error)
               ELSE Called(loc[t], provider_info, api_result)]
          /\ pc' = [pc EXCEPT ![t] = after_failure]
  /\ UNCHANGED <<environment, probe, file_exists, metrics_file, instances, ops>>
Call(t, provider_info, resp, after_failure) ==
  Returned(t, provider_info, call_ai_provider(provider_info, loc[t].prompt_len, resp),
           after_failure)

\* process_query, lines 394-398 and, after a success, 426-479
CallPrimary(t, resp) ==
  /\ pc[t] = "call_primary"
  /\ Call(t, loc[t].provider_info, resp, "fallback_read")

\* _try_fallback_provider, lines 226-227: the name of self._current_provider
FallbackRead(t) ==
  /\ pc[t] = "fallback_read"
  /\ loc' = [loc EXCEPT ![t].current_provider_name =
               instances[loc[t].inst].current_provider.provider,
             ![t].fallback_attempted = TRUE]
  /\ pc' = [pc EXCEPT ![t] = "fallback_select"]
  /\ UNCHANGED <<environment, probe, file_exists, metrics_file, instances, ops>>

\* _try_fallback_provider, lines 229-237, and lines 401 and 408-424 when it
\* returns None
FallbackSelect(t) ==
  LET l == loc[t]
      result == try_fallback_provider(priority_env, api_keys, l.current_provider_name)
  IN  /\ pc[t] = "fallback_select"
      /\ IF result # None
         THEN /\ instances' = [instances EXCEPT ![l.inst].current_provider = result]
              /\ loc' = [loc EXCEPT ![t].fallback_info = result]
              /\ pc' = [pc EXCEPT ![t] = "call_fallback"]
         ELSE /\ loc' = [loc EXCEPT ![t] = AllFailed(l, l.error)]
              /\ pc' = [pc EXCEPT ![t] = "done"]
              /\ UNCHANGED instances
      /\ UNCHANGED <<environment, probe, file_exists, metrics_file, ops>>

CallFallbackCycling(t, resp) ==
  /\ pc[t] = "call_fallback"
  /\ Len(loc[t].calls) < 4
  /\ Call(t, loc[t].fallback_info, resp, "fallback_read")
\* process_query, lines 402-408 and, after a success, 426-479
CallFallback(t, resp) ==
  /\ pc[t] = "call_fallback"
  /\ Call(t, loc[t].fallback_info, resp, "done")

\* _log_metrics, line 193: open(..., 'a') creates the file when it is missing
LogOpen(t) ==
  /\ pc[t] = "log_open"
  /\ file_exists' = TRUE
  /\ pc' = [pc EXCEPT ![t] = "log_write"]
  /\ UNCHANGED <<environment, probe, metrics_file, instances, loc, ops>>

\* _log_metrics, lines 194-208: the row goes to the end of the file when the
\* file is closed; then process_query returns its result (lines 436-453 and
\* 481-493), or raises TypeError on a JSON value that is not an object
LogWrite(t) ==
  LET l == loc[t]
  IN  /\ pc[t] = "log_write"
      /\ metrics_file' = Append(metrics_file, l.row)
      /\ loc' = [loc EXCEPT ![t] = [l EXCEPT !.appended = Append(@, l.row),
                                              !.result = l.pending,
                                              !.outcome = l.pending_outcome,
                                              !.pending = NoResult,
                                              !.pending_outcome = "none",
                                              !.row = NoRow]]
      /\ pc' = [pc EXCEPT ![t] = "done"]
      /\ UNCHANGED <<environment, probe, file_exists, instances, ops>>

Next ==
  \/ \E t \in Threads : Construct(t)
  \/ \E t \in Threads : InitOpen(t)
  \/ \E t \in Threads : InitWrite(t)
  \/ \E t \in Threads, i \in 1..Len(instances), q \in Questions : StartQuery(t, i, q)
  \/ \E t \in Threads, resp \in Responses : CallPrimary(t, resp)
  \/ \E t \in Threads : FallbackRead(t)
  \/ \E t \in Threads : FallbackSelect(t)
  \/ \E t \in Threads, resp \in Responses : CallFallback(t, resp)
  \/ \E t \in Threads : LogOpen(t)
  \/ \E t \in Threads : LogWrite(t)

Spec == Init /\ [][Next]_vars

\* ---------------------------------------------------------- direct calls
\* The arguments of direct calls of the methods of SafetyChecker and of
\* TextUtility._get_provider_priority, as tests/test_core.py makes them.
TPadded == <<" "," ","W","h","a","t"," ","i","s"," ","m","y"," ","b","a","l","a","n","c","e","?"," ">>
TOnlyNumbers == <<"1","2","3","4","5"," ","6","7","8">>
THarmful == <<"h","a","c","k"," ","t","h","e"," ","s","y","s","t","e","m">>
THarmfulInjection == <<"i","g","n","o","r","e"," ","p","r","e","v","i","o","u","s"," ","b","y","p","a","s","s"," ","j","a","i","l","b","r","e","a","k">>
TOverride == <<"o","v","e","r","r","i","d","e"," ","t","h","e"," ","a","d","m","i","n"," ","r","o","o","t"," ","n","o","w">>
TDeveloperMode == <<"p","l","e","a","s","e"," ","u","s","e"," ","d","e","v","e","l","o","p","e","r"," ","m","o","d","e">>
TElevate == <<"y","o","u"," ","m","u","s","t"," ","e","l","e","v","a","t","e"," ","p","r","i","v","i","l","e","g","e">>
TDigitsSecret == <<"1","2","3","4","5","6","7","8","9","t","o","k","e","n","=","a","b","c">>
THarmfulEmail == <<"h","a","c","k"," ","a","@","b",".","c","o","m"," ","n","o","w">>
TNormal == <<"T","h","i","s"," ","i","s"," ","a"," ","n","o","r","m","a","l"," ","r","e","s","p","o","n","s","e">>
TFenced == <<"r","u","n"," ",Backtick,Backtick,Backtick,"l","s"," ","-","l",Backtick,Backtick,Backtick," ","n","o","w">>
TAsterisks == <<"*","*","*","*">>
TPhones == <<"c","a","l","l"," ","5","5","5","-","1","2","3","-","4","5","6","7"," ","o","r"," ","1","2","-","3","4","5","6","-","7","8">>
TPasswordDigits == <<"p","a","s","s","w","o","r","d",":"," ","s","3","c","r","e","t"," ","1","2","3","4","5","6","7","8","9">>
TRepetitive == <<"a","a","a","a","a","a">>
TLetterPunct == <<"a","!","?",".",",">>
TTwoLetters == <<"a"," ","b">>
EnvOpenai == <<"o","p","e","n","a","i">>
EnvNoneValid == <<"a","z","u","r","e",",","f","o","o">>
EnvRepeated == <<"g","e","m","i","n","i",",","a","z","u","r","e",",","g","e","m","i","n","i">>
EnvBlank == <<" ",","," ">>
FDigits == <<"1","2","3","4","5","6","7","8","9">>
FSecret == <<"t","o","k","e","n","=","a","b","c">>
FEmail == <<"a","@","b",".","c","o","m">>
FSpace == <<" ">>
FWord == <<"x","-">>
\* a question of max_question_length + 3 characters, for check_safety only
TLong == [k \in 1..(max_question_length + 3) |-> IF k % 3 = 0 THEN " " ELSE "a"]
Fragments == {FDigits, FSecret, FEmail, FSpace, FWord}
Texts ==
  {<<>>, QReset, QShort, QEmail, OutJson, OutHarmful, OutEmail, OutList, OutDigits,
   TPadded, TOnlyNumbers, THarmful, THarmfulInjection, TOverride, TDeveloperMode,
   TElevate, TDigitsSecret, THarmfulEmail, TNormal, TFenced, TAsterisks, TPhones,
   TPasswordDigits, TRepetitive, TLetterPunct, TTwoLetters}
  \cup {a \o b : a \in Fragments, b \in Fragments}
DirectEnvs == {EnvUnset, EnvGeminiFirst, EnvOpenai, EnvNoneValid, EnvRepeated, EnvBlank}
DirectKeys == SUBSET {"openrouter", "gemini", "openai"}

\* what the methods return for these arguments, computed once
RedactOf == [x \in Texts |-> redact_pii(x)]
RedactTwiceOf == [x \in Texts |-> redact_pii(RedactOf[x])]
MaskOutputOf == [x \in Texts |-> mask_output(x)]
SanitizeOf == [x \in Texts |-> sanitize_user_input(x)]
CheckSafetyOf == [x \in Texts \cup {TLong} |-> check_safety(x)]
PriorityListOf == [e \in DirectEnvs |-> get_provider_priority(e)]

\* the hit counts a question can have: one hit at most for each entry of a list
HitCounts ==
  (0..Len(injection_keywords)) \X (0..Len(instruction_phrases))
    \X (0..Len(adversarial_patterns))

DirectInit ==
  /\ api_keys = {}
  /\ priority_env = EnvUnset
  /\ safety_module = TRUE
  /\ file_exists = TRUE
  /\ metrics_file = <<HeaderRow>>
  /\ instances = <<>>
  /\ pc = [t \in Threads |-> "idle"]
  /\ loc = [t \in Threads |-> NoLocals]
  /\ ops = 0
  /\ probe \in {[NoProbe EXCEPT !.of = "text", !.arg = x] : x \in Texts \cup {TLong}}
               \cup {[NoProbe EXCEPT !.of = "env", !.arg = e, !.keys = k] :
                       e \in DirectEnvs, k \in DirectKeys}
               \cup {[NoProbe EXCEPT !.of = "counts", !.counts = c] : c \in HitCounts}

Direct(fn, result) ==
  /\ probe.fn = "none"
  /\ probe' = [probe EXCEPT !.fn = fn, !.result = result]
  /\ UNCHANGED <<environment, file_exists, metrics_file, instances, pc, loc, ops>>

\* SafetyChecker.redact_pii(text), and redact_pii of what it returned
RedactPii ==
  /\ probe.of = "text"
  /\ probe.arg \in Texts
  /\ Direct("redact_pii", RedactOf[probe.arg])
RedactPiiAgain ==
  /\ probe.fn = "redact_pii"
  /\ probe' = [probe EXCEPT !.fn = "redact_pii_twice",
                            !.result = [first |-> probe.result,
                                        second |-> RedactTwiceOf[probe.arg]]]
  /\ UNCHANGED <<environment, file_exists, metrics_file, instances, pc, loc, ops>>
\* SafetyChecker.mask_output(text)
MaskOutput ==
  /\ probe.of = "text"
  /\ probe.arg \in Texts
  /\ Direct("mask_output", MaskOutputOf[probe.arg])
\* SafetyChecker.sanitize_user_input(text)
SanitizeUserInput ==
  /\ probe.of = "text"
  /\ probe.arg \in Texts
  /\ Direct("sanitize_user_input", SanitizeOf[probe.arg])
\* SafetyChecker.check_safety(question)
CheckSafety ==
  /\ probe.of = "text"
  /\ Direct("check_safety", CheckSafetyOf[probe.arg])
\* TextUtility.__init__ and _try_fallback_provider under PROVIDER_PRIORITY = env
\* and the API keys of keys: the priority list, the current provider, and the
\* fallback for it
SelectProviders(env, keys, current) ==
  [priority |-> PriorityListOf[env], current |-> current,
   fallback |-> try_fallback_provider(env, keys, current.provider)]
GetProviderPriority ==
  /\ probe.of = "env"
  /\ Direct("get_provider_priority",
            SelectProviders(probe.arg, probe.keys,
                            initialize_ai_providers(probe.arg, probe.keys)))
\* SafetyChecker._calculate_injection_score at the hit counts of probe.counts, and
\* at one more hit of each kind
CalculateInjectionScore ==
  /\ probe.of = "counts"
  /\ Direct("calculate_injection_score",
            [score |-> score_of_counts(probe.counts[1], probe.counts[2], probe.counts[3]),
             more_keywords |->
               score_of_counts(probe.counts[1] + 1, probe.counts[2], probe.counts[3]),
             more_instructions |->
               score_of_counts(probe.counts[1], probe.counts[2] + 1, probe.counts[3]),
             more_adversarial |->
               score_of_counts(probe.counts[1], probe.counts[2], probe.counts[3] + 1)])

DirectNext ==
  \/ RedactPii
  \/ RedactPiiAgain
  \/ MaskOutput
  \/ SanitizeUserInput
  \/ CheckSafety
  \/ GetProviderPriority
  \/ CalculateInjectionScore

DirectSpec == DirectInit /\ [][DirectNext]_vars

\* ------------------------------------------------------------ properties
\* thread t is in a call of process_query, or has finished one
Calling(t) == loc[t].question # <<>>
Finished(t) == Calling(t) /\ pc[t] = "done"
\* the providers of the priority list that have an API key
PriorityOf == [e \in PriorityEnvs |-> get_provider_priority(e)]
Configured ==
  {PriorityOf[priority_env][k] : k \in 1..Len(PriorityOf[priority_env])} \cap api_keys
\* the texts a result hands to the caller
ResultTexts(r) ==
  {r.answer, r.safety_warning, r.error, r.parsed} \cup {r.actions[k] : k \in 1..Len(r.actions)}

\* C1: a call whose question the input gate finds unsafe is over in its first
\* step: it returns a result whose safety_warning is the verdict's reason, it
\* has called no provider, it has appended no record, and the step leaves the
\* metrics file as it was.
C1_RejectedIsNoOp ==
  [][\A t \in Threads :
       (/\ pc[t] \in {"idle", "done"}
        /\ loc'[t] # loc[t]
        /\ Calling(t)'
        /\ ~SafetyCheckOf[loc'[t].question, safety_module].safe)
       => /\ pc'[t] = "done"
          /\ loc'[t].outcome = "Rejected"
          /\ "safety_warning" \in loc'[t].result.keys
          /\ loc'[t].result.safety_warning
               = SafetyCheckOf[loc'[t].question, safety_module].reason
          /\ loc'[t].calls = <<>>
          /\ loc'[t].appended = <<>>
          /\ metrics_file' = metrics_file
          /\ file_exists' = file_exists]_vars
\* a call was rejected while the log already held the record of an earlier call
C1_Witness ==
  \E t \in Threads :
    /\ Finished(t) /\ loc[t].outcome = "Rejected"
    /\ loc[t].result.safety_warning = MsgTooShort
    /\ \E k \in 1..Len(metrics_file) : metrics_file[k].kind = "record"

\* C2: a call of process_query calls providers at most twice, and after a
\* second failed call it is over with the aggregate-failure result, whatever
\* the number of configured providers.
C2_AtMostTwoCalls ==
  \A t \in Threads :
    /\ Len(loc[t].calls) <= 2
    /\ (Len(loc[t].calls) = 2 /\ ~loc[t].calls[2].success)
       => /\ pc[t] = "done"
          /\ loc[t].outcome = "AllProvidersFailed"
          /\ "error" \in loc[t].result.keys
\* two calls failed although a third provider is configured
C2_Witness ==
  \E t \in Threads :
    /\ Len(loc[t].calls) = 2 /\ ~loc[t].calls[1].success /\ ~loc[t].calls[2].success
    /\ Cardinality(Configured) = 3
    /\ loc[t].outcome = "AllProvidersFailed"

\* C3: a call that has ended in AllProvidersFailed, Blocked or Delivered has
\* returned one result and has appended exactly one record.
C3_OneResultOneRecord ==
  \A t \in Threads :
    (Finished(t) /\ loc[t].outcome \in {"AllProvidersFailed", "Blocked", "Delivered"})
    => /\ loc[t].result # NoResult
       /\ Len(loc[t].appended) = 1

\* the reasons _check_invalid_response_patterns gives for an invalid response
BlockReasons ==
  {MsgRespTooShort, MsgRespOnlyNumbers, MsgRespOnlySpecial, MsgRespHarmful}
  \cup {MsgRespProhibitedPrefix \o harmful_keywords[k] : k \in 1..Len(harmful_keywords)}

\* C4: when the output gate's action is block, the call returns the fixed
\* refusal answer and a safety_warning, no text of the result contains the
\* backend's content, and the call has appended exactly one record, with
\* safety_check_passed = FALSE.
C4_BlockedIsRefused ==
  \A t \in Threads :
    (Finished(t) /\ loc[t].mask_action = "block")
    => /\ loc[t].outcome = "Blocked"
       /\ loc[t].result.answer = MsgCannotProcess
       /\ "safety_warning" \in loc[t].result.keys
       /\ loc[t].result.safety_warning # <<>>
       /\ loc[t].result.safety_warning \in {MsgInvalidResponse \o r : r \in BlockReasons}
       /\ loc[t].result.actions = <<MsgTryAgain>>
       /\ loc[t].result.parsed = <<>>
       /\ \A x \in ResultTexts(loc[t].result) : ~Contains(x, loc[t].content)
       /\ Len(loc[t].appended) = 1
       /\ loc[t].appended[1].safety_check_passed = FALSE
\* a call whose backend content was blocked has returned
C4_Witness ==
  \E t \in Threads :
    /\ Finished(t) /\ loc[t].mask_action = "block"
    /\ loc[t].content = OutHarmful


\* the first provider of the priority list that has an API key
FirstConfigured ==
  PriorityOf[priority_env][SetMin({k \in 1..Len(PriorityOf[priority_env]) :
                                     PriorityOf[priority_env][k] \in api_keys})]

\* C5: the provider a call of process_query attempts first is the first
\* provider of the priority list that is configured, also when an earlier
\* call on the same instance has fallen back.
C5_FirstAttemptIsHead ==
  \A t \in Threads :
    Len(loc[t].calls) >= 1 => loc[t].calls[1].provider = FirstConfigured

\* C6 as stated: a fallback is attempted iff the first call failed, and a
\* call that attempted a fallback ends in AllProvidersFailed iff every
\* configured provider has been tried by that call.
C6_FailedIffNoneUntried ==
  \A t \in Threads :
    Finished(t) /\ Len(loc[t].calls) >= 1
    => /\ loc[t].fallback_attempted <=> ~loc[t].calls[1].success
       /\ loc[t].fallback_attempted
          => (loc[t].outcome = "AllProvidersFailed"
              <=> Configured \subseteq {loc[t].calls[k].provider : k \in 1..Len(loc[t].calls)})
\* C6 amended: a fallback is attempted iff the first call failed, and a call
\* that attempted a fallback ends in AllProvidersFailed iff no provider other
\* than the instance's current one is configured (then no second call is made)
\* or the one fallback call failed as well.
C6_FailedIffNoFallbackOrFallbackFailed ==
  \A t \in Threads :
    Finished(t) /\ Len(loc[t].calls) >= 1
    => /\ loc[t].fallback_attempted <=> ~loc[t].calls[1].success
       /\ loc[t].fallback_attempted
          => /\ loc[t].outcome = "AllProvidersFailed"
                <=> (Len(loc[t].calls) = 1 \/ ~loc[t].calls[2].success)
             /\ Len(loc[t].calls) = 1
                <=> Configured \subseteq {loc[t].current_provider_name}
\* two calls failed and the call is over while a third provider, configured,
\* is untried
C6_Witness ==
  \E t \in Threads :
    /\ Finished(t) /\ loc[t].fallback_attempted
    /\ loc[t].outcome = "AllProvidersFailed"
    /\ Len(loc[t].calls) = 2
    /\ Configured \ {loc[t].calls[1].provider, loc[t].calls[2].provider} # {}

\* C7: after a failed first call and a successful fallback call, the provider
\* and model of the returned result's metrics and of the appended record are
\* the fallback's and not the primary's.
C7_MetricsNameFallback ==
  \A t \in Threads :
    (/\ Finished(t) /\ Len(loc[t].calls) = 2
     /\ ~loc[t].calls[1].success /\ loc[t].calls[2].success
     /\ loc[t].outcome \in {"Delivered", "Blocked"})
    => /\ loc[t].result.metrics.provider = loc[t].calls[2].provider
       /\ loc[t].result.metrics.model = loc[t].calls[2].model
       /\ loc[t].result.metrics.provider # loc[t].calls[1].provider
       /\ loc[t].result.metrics.model # loc[t].calls[1].model
       /\ Len(loc[t].appended) = 1
       /\ loc[t].appended[1].provider = loc[t].calls[2].provider
       /\ loc[t].appended[1].model = loc[t].calls[2].model
       /\ loc[t].appended[1].provider # loc[t].calls[1].provider
       /\ loc[t].appended[1].model # loc[t].calls[1].model

\* C8: the fallback provider a call attempts is never the provider whose call
\* has just failed for that call, under any interleaving of the calls that
\* share an instance.
C8_FallbackIsAnotherProvider ==
  \A t \in Threads :
    Len(loc[t].calls) = 2 => loc[t].calls[2].provider # loc[t].calls[1].provider

\* C9: the metrics log is append-only: no step of a construction or of a call
\* removes or rewrites a row the log holds, and the header is written once.
C9_LogIsAppendOnly ==
  [][\A k \in 1..Len(metrics_file) :
       Len(metrics_file') >= k /\ metrics_file'[k] = metrics_file[k]]_vars

\* C10: appends to the metrics log are serialized: no two calls are between
\* the open and the close of the log at the same time.
C10_AppendsAreSerialized ==
  \A t1, t2 \in Threads :
    (pc[t1] = "log_write" /\ pc[t2] = "log_write") => t1 = t2

\* thread t's call of process_query is over and its last provider call succeeded
Answered(t) ==
  /\ Finished(t)
  /\ loc[t].calls # <<>>
  /\ loc[t].calls[Len(loc[t].calls)].success

\* C11: a call whose backend content passes the output gate and is not a JSON
\* object (not JSON at all, or a JSON array, string or number) returns the
\* default low-confidence payload with metrics and without an error field; it
\* does not raise.
C11_UnparseableGivesDefault ==
  \A t \in Threads :
    (/\ Answered(t)
     /\ loc[t].mask_action # "block"
     /\ OutputGateOf[loc[t].content, safety_module].json # "object")
    => /\ loc[t].outcome = "Delivered"
       /\ loc[t].result.answer = MsgErrorParsing
       /\ loc[t].result.confidence = 0
       /\ "metrics" \in loc[t].result.keys
       /\ "error" \notin loc[t].result.keys

\* C12: when all attempted providers have failed, no text of the result
\* (answer, error, actions) contains the error text of a provider call.
C12_FailureHidesErrorText ==
  \A t \in Threads :
    (Finished(t) /\ loc[t].outcome = "AllProvidersFailed")
    => \A x \in ResultTexts(loc[t].result) : ~Contains(x, loc[t].error)

\* what the PII redactor and the content hasher make of the questions and of
\* the texts that are logged as output
RedactedPrefixes == {redact_pii(Prefix(q, 100)) : q \in Questions}
RedactedDigests == {Sha256(redact_pii(x)) : x \in Questions \cup OutputTexts}
RawPii == {q \in Questions : redact_pii(q) # q}

\* C13: in every record of the log, with or without the safety module, the
\* question column is a redacted question, the hash columns are digests of
\* redacted text, and no raw question that holds PII is in the log.
C13_LogHoldsRedactedText ==
  \A k \in 1..Len(metrics_file) :
    metrics_file[k].kind = "record"
    => /\ metrics_file[k].question \in RedactedPrefixes
       /\ metrics_file[k].question \notin RawPii
       /\ metrics_file[k].question_hash \in RedactedDigests
       /\ metrics_file[k].output_hash \in RedactedDigests

\* C14: redact_pii is idempotent: redacting the redacted text changes nothing.
C14_RedactIsIdempotent ==
  probe.fn = "redact_pii_twice" => probe.result.second = probe.result.first

\* C15: when the backend's content is the digits-only text 111111111, the
\* output gate blocks it: the call returns the fixed refusal answer with a
\* safety_warning and appends one record with safety_check_passed = FALSE.
C15_DigitsAreBlocked ==
  \A t \in Threads :
    (Answered(t) /\ loc[t].content = OutDigits)
    => /\ loc[t].mask_action = "block"
       /\ loc[t].outcome = "Blocked"
       /\ loc[t].result.answer = MsgCannotProcess
       /\ loc[t].result.safety_warning # <<>>
       /\ Len(loc[t].appended) = 1
       /\ loc[t].appended[1].safety_check_passed = FALSE

\* provider ids, known and unknown, and token counts for _calculate_cost
CostProviders == {"openrouter", "gemini", "openai", "unknown"}
TokenCounts == {0, 1, 7, 12, 1000}

\* C16: in every record of the log and in the metrics of every result,
\* total_tokens = tokens_prompt + tokens_completion and estimated_cost_usd >= 0;
\* the cost is >= 0 for every provider id and all non-negative token counts.
C16_TokensAddUpCostNonNegative ==
  /\ \A k \in 1..Len(metrics_file) :
       metrics_file[k].kind = "record"
       => /\ metrics_file[k].total_tokens
               = metrics_file[k].tokens_prompt + metrics_file[k].tokens_completion
          /\ metrics_file[k].estimated_cost_usd >= 0
  /\ \A t \in Threads :
       /\ loc[t].result.metrics.total_tokens
            = loc[t].result.metrics.tokens_prompt + loc[t].result.metrics.tokens_completion
       /\ loc[t].result.metrics.estimated_cost_usd >= 0
  /\ \A p \in CostProviders, a \in TokenCounts, b \in TokenCounts :
       \A c \in Round6(calculate_cost(p, a, b)) : c >= 0
\* a call has returned a result with metrics of a provider call, and its record
\* is in the log
C16_Witness ==
  \E t \in Threads :
    /\ Finished(t) /\ loc[t].outcome = "Delivered"
    /\ loc[t].result.metrics.tokens_completion > 0
    /\ loc[t].result.metrics.estimated_cost_usd > 0
    /\ \E k \in 1..Len(metrics_file) :
         metrics_file[k].kind = "record" /\ metrics_file[k].tokens_completion > 0

\* whether the redacted text passes _check_invalid_response_patterns
RedactedIsValid == [x \in Texts |-> check_invalid_response_patterns(RedactOf[x]).valid]

\* C17: mask_output blocks with severity high when the redacted text fails
\* validation, with or without PII; otherwise it allows with masking, severity
\* medium and the redacted text, exactly when redaction changed the text;
\* otherwise it allows with severity low and the raw text.
C17_MaskOutputVerdict ==
  probe.fn = "mask_output"
  => IF ~RedactedIsValid[probe.arg]
     THEN probe.result.action = "block" /\ probe.result.severity = "high"
     ELSE IF RedactOf[probe.arg] # probe.arg
     THEN /\ probe.result.action = "allow-masked"
          /\ probe.result.severity = "medium"
          /\ probe.result.text = RedactOf[probe.arg]
     ELSE /\ probe.result.action = "allow"
          /\ probe.result.severity = "low"
          /\ probe.result.text = probe.arg
\* mask_output has blocked a text in which it found PII
C17_Witness ==
  /\ probe.fn = "mask_output"
  /\ probe.result.action = "block"
  /\ RedactOf[probe.arg] # probe.arg

\* the priority lists the claim gives for the sample values of PROVIDER_PRIORITY
ExpectedPriority ==
  [e \in DirectEnvs |->
     CASE e = EnvGeminiFirst -> <<"gemini", "openrouter">>
       [] e = EnvOpenai -> <<"openai">>
       [] e = EnvRepeated -> <<"gemini", "gemini">>
       [] OTHER -> <<"openrouter", "gemini", "openai">>]
NamedIn(e) == {ExpectedPriority[e][k] : k \in 1..Len(ExpectedPriority[e])}

\* C18: the priority list is the default without an override or when the
\* override names no valid provider, and otherwise the override's valid names
\* in their order; the current provider and the fallback are providers of that
\* list that have an API key, or there is none.
C18_PriorityIsOverrideOrDefault ==
  probe.fn = "get_provider_priority"
  => /\ probe.result.priority = ExpectedPriority[probe.arg]
     /\ probe.result.current.provider \in (NamedIn(probe.arg) \cap probe.keys) \cup {"none"}
     /\ probe.result.fallback.provider \in (NamedIn(probe.arg) \cap probe.keys) \cup {"none"}
     /\ probe.result.current = None <=> NamedIn(probe.arg) \cap probe.keys = {}
\* the override names openai only, the other two providers have keys, and no
\* provider is selected
C18_Witness ==
  /\ probe.fn = "get_provider_priority"
  /\ probe.arg = EnvOpenai
  /\ probe.keys = {"openrouter", "gemini"}
  /\ probe.result.priority = <<"openai">>
  /\ probe.result.current = None
  /\ probe.result.fallback = None

\* the texts in which sanitize_user_input finds no control phrase and no
\* fenced code block
IsClean ==
  [x \in Texts |-> strip_control_phrases(x) = x /\ literalize_code_blocks(x) = x]

\* C19: for a question that passes the input gate and holds no control phrase
\* and no fenced code block, sanitize_user_input returns the question
\* unchanged, leading and trailing whitespace included.
C19_SanitizeCleanIsIdentity ==
  (/\ probe.fn = "sanitize_user_input"
   /\ CheckSafetyOf[probe.arg].safe
   /\ IsClean[probe.arg])
  => probe.result = probe.arg

\* what the single checks of check_safety find in the stripped texts
StructureIsValid == [x \in Texts |-> check_invalid_patterns(Strip(x)).valid]
HarmfulFound == [x \in Texts |-> MatchesHarmful(Strip(x))]
InjectionScoreOf == [x \in Texts |-> calculate_injection_score(Strip(x))]

\* C20: check_safety's verdict is that of the first failing check in the order
\* length, structure, harmful pattern, injection score: a length or structure
\* failure gives confidence 1.0, a harmful pattern 0.8 whatever the injection
\* score, a score above 0.5 the score itself, and a safe verdict has
\* confidence 0.9; the confidence (in hundredths) is within 0..100.
C20_FirstFailingCheckDecides ==
  probe.fn = "check_safety"
  => /\ probe.result.confidence \in 0..100
     /\ IF \/ Len(Strip(probe.arg)) < min_question_length
           \/ Len(Strip(probe.arg)) > max_question_length
        THEN ~probe.result.safe /\ probe.result.confidence = 100
        ELSE IF ~StructureIsValid[probe.arg]
        THEN ~probe.result.safe /\ probe.result.confidence = 100
        ELSE IF HarmfulFound[probe.arg]
        THEN ~probe.result.safe /\ probe.result.confidence = 80
        ELSE IF InjectionScoreOf[probe.arg] > 50
        THEN ~probe.result.safe /\ probe.result.confidence = InjectionScoreOf[probe.arg]
        ELSE probe.result.safe /\ probe.result.confidence = 90
\* a question with a harmful pattern and an injection score above 0.5 was
\* judged unsafe with confidence 0.8
C20_Witness ==
  /\ probe.fn = "check_safety"
  /\ probe.arg = THarmfulInjection
  /\ InjectionScoreOf[probe.arg] > 50
  /\ probe.result.confidence = 80

\* C21: for all hit counts k (keywords), i (instruction phrases) and a
\* (adversarial patterns) the injection score is
\* min(1.0, min(0.6, 0.2 k) + min(0.4, 0.25 i) + min(0.5, 0.4 a)); it lies in
\* [0, 1] and does not decrease when one of k, i, a grows by one hit with the
\* other two fixed.  Scores are in hundredths.
Least(x, y) == IF x <= y THEN x ELSE y
ExpectedScore(k, i, a) ==
  Least(100, Least(60, 20 * k) + Least(40, 25 * i) + Least(50, 40 * a))
C21_ScoreFormulaBoundedMonotone ==
  probe.fn = "calculate_injection_score" =>
    /\ probe.result.score
         = ExpectedScore(probe.counts[1], probe.counts[2], probe.counts[3])
    /\ probe.result.score >= 0
    /\ probe.result.score <= 100
    /\ probe.result.more_keywords >= probe.result.score
    /\ probe.result.more_instructions >= probe.result.score
    /\ probe.result.more_adversarial >= probe.result.score
\* three keywords, two instruction phrases and two adversarial patterns: the parts
\* add up to 1.5 and the score is 1.0
C21_Witness ==
  /\ probe.fn = "calculate_injection_score"
  /\ probe.counts = <<3, 2, 2>>
  /\ probe.result.score = 100
  /\ probe.result.more_keywords = 100

\* C22: every question whose trimmed text holds fewer than 3 alphanumeric
\* characters is rejected by check_safety, whatever its length and its other
\* characters.
AlnumCount(t) ==
  Cardinality({k \in 1..Len(t) : t[k] \in LowerLetters \cup UpperLetters \cup Digits})
FewAlnum == [x \in Texts |-> AlnumCount(Strip(x)) < 3]
C22_FewAlnumIsRejected ==
  (probe.fn = "check_safety" /\ probe.arg \in Texts /\ FewAlnum[probe.arg]) =>
    ~probe.result.safe

\* C23: when the backend reports no usage (gemini never reports one), the prompt
\* and completion token counts of a successful call are max(1, ceil(n / 3.5))
\* of the length n of the prompt and of the cleaned content; a reported usage
\* is used unchanged.
CeilEstimate(n) == IF (2 * n + 6) \div 7 >= 1 THEN (2 * n + 6) \div 7 ELSE 1
Reported(provider_info, resp) == provider_info.provider # "gemini" /\ resp.usage # <<>>
TokensAsClaimed(t, provider_info, resp) ==
  (~resp.raises /\ provider_info.provider \in {"gemini", "openrouter"}) =>
    /\ loc'[t].row.tokens_prompt
         = IF Reported(provider_info, resp) THEN resp.usage[1]
           ELSE CeilEstimate(loc[t].prompt_len)
    /\ loc'[t].row.tokens_completion
         = IF Reported(provider_info, resp) THEN resp.usage[2]
           ELSE CeilEstimate(Len(loc'[t].content))
C23_EstimateIsCeiling ==
  [][\A t \in Threads, resp \in Responses :
       /\ CallPrimary(t, resp) => TokensAsClaimed(t, loc[t].provider_info, resp)
       /\ CallFallback(t, resp) => TokensAsClaimed(t, loc[t].fallback_info, resp)]_vars

\* C24: with the safety checker active, the record of a call has
\* safety_check_passed = FALSE exactly when the output gate's action for the
\* call was block; every record of a call that is delivered, after allow or
\* allow-masked and also after a JSON parse failure, has safety_check_passed =
\* TRUE.
RecordOf(t) == IF loc[t].row # NoRow THEN <<loc[t].row>> ELSE loc[t].appended
C24_FailedCheckIffBlocked ==
  \A t \in Threads :
    (safety_module /\ Len(RecordOf(t)) >= 1)
    => /\ Len(RecordOf(t)) = 1
       /\ ~RecordOf(t)[1].safety_check_passed <=> loc[t].mask_action = "block"
       /\ loc[t].mask_action \in {"allow", "allow-masked", "block"}
       /\ loc[t].outcome = "Delivered" => RecordOf(t)[1].safety_check_passed
\* a masked text that is not JSON was delivered as a parse failure, with a record
\* that passed the check, and another call's text was blocked, with a record that
\* failed it
C24_Witness ==
  /\ safety_module
  /\ \E t \in Threads :
       /\ loc[t].outcome = "Delivered"
       /\ loc[t].mask_action = "allow-masked"
       /\ loc[t].result.answer = MsgErrorParsing
       /\ Len(loc[t].appended) = 1
       /\ loc[t].appended[1].safety_check_passed
  /\ \E t \in Threads :
       /\ loc[t].outcome = "Blocked"
       /\ loc[t].mask_action = "block"
       /\ Len(loc[t].appended) = 1
       /\ ~loc[t].appended[1].safety_check_passed
====
